---- MODULE Spec2Model ----
(***************************************************************************)
(* Model of the Intel Arc monitor (sd_webui_monitor.py, monitor_data.py,   *)
(* monitor_config.py): the tick driver, the two-worker fetch pool, the Tk  *)
(* event queue that hands results to the main thread, the alarm lifecycle  *)
(* of _process_fetched_data and the Webui stall detector.                  *)
(*                                                                         *)
(* Units: time is in milliseconds (time.time() * 1000), memory in MiB      *)
(* (bytes / 1024**2), so that every value fits TLC's integers.             *)
(***************************************************************************)
EXTENDS Integers, Sequences, FiniteSets, TLC

VARIABLES
    now,                                 \* wall clock, time.time() in ms
    late_ticks,                          \* ticks the Tk timer fired late so far
    playback,                            \* self.playback: "none" (None) or "object"
    playback_active,                     \* self.playback.active
    total_checks, success_count, failure_count,
    is_alarm_active, consecutive_warn_count, alarm_start_time, playback_count,
    last_webui_check_time, last_webui_file_count,
    consecutive_webui_no_increase_count,
    layout,                              \* which copy of _fetch_all_data runs
    pending,                             \* executor work queue (ids of submitted fetches)
    running,                             \* worker -> the fetch it runs and its outcome
    afterq,                              \* Tk event queue of master.after(0, ...) callbacks
    closed,                              \* on_closing has run
    first_vm_record_time, first_vm_used_gb,
    last_vm_record_time, last_vm_used_gb,
    stall_calls,                         \* stall checks past the window test, not yet written
    boundary_alert,                      \* history: alert returned by the last init/boundary check
    met_run,                             \* history: consecutive met samples applied
    low_run,                             \* history: consecutive samples below 8 GB applied
    run_plays,                           \* history: _play_beep_alarm calls in this run
    last                                 \* history: what the last step did

vars == <<now, late_ticks, playback, playback_active, total_checks, success_count,
          failure_count, is_alarm_active, consecutive_warn_count, alarm_start_time,
          playback_count, last_webui_check_time, last_webui_file_count,
          consecutive_webui_no_increase_count, layout, pending, running, afterq,
          closed, first_vm_record_time, first_vm_used_gb, last_vm_record_time,
          last_vm_used_gb, stall_calls, boundary_alert, met_run, low_run,
          run_plays, last>>

appVars == <<total_checks, success_count, failure_count, is_alarm_active,
             consecutive_warn_count, alarm_start_time, playback_count>>
alarmVars == <<is_alarm_active, consecutive_warn_count, alarm_start_time,
               playback_count>>
stallVars == <<last_webui_check_time, last_webui_file_count,
               consecutive_webui_no_increase_count>>
poolVars == <<pending, running, afterq, closed>>
logVars == <<first_vm_record_time, first_vm_used_gb, last_vm_record_time,
             last_vm_used_gb>>
envVars == <<playback, layout>>

----------------------------------------------------------------------------
\* monitor_config.py

MEMORY_WARN_THRESHOLD_GB == 8
WARN_COUNT_THRESHOLD == 7
UPDATE_INTERVAL_MS == 1500
WEBUI_CHECK_INTERVAL_SECONDS == 30
WEBUI_WARN_CYCLE_THRESHOLD == 2
VIRTUAL_MEMORY_WARN_THRESHOLD_GB == 80
VM_LOG_INTERVAL_SECONDS == 1800
\* MEMORY_WARN_THRESHOLD_GB * 1024**3 bytes, in MiB
MEMORY_WARN_THRESHOLD_BYTES == MEMORY_WARN_THRESHOLD_GB * 1024
\* ThreadPoolExecutor(max_workers=2)
max_workers == 2

----------------------------------------------------------------------------
\* Bounds of the model

MaxChecks == 9           \* ticks fired when fetches do not overlap
MaxOverlapChecks == 3    \* ticks fired when fetches overlap
MaxInFlight == 2         \* fetches submitted and not yet applied
MaxLateTicks == 2        \* ticks the Tk timer may fire late
MaxStallTime == 90000    \* horizon (ms) of the stall detector runs
MaxVmLogTime == 5400000  \* horizon (ms) of the committed-memory logger runs
MaxRetriggerChecks == 16 \* ticks fired in the runs with two activations

None == -1               \* Python None for alarm_start_time and the logger's fields

\* 7.9 GB and exactly 8 GB of dedicated memory, in MiB
MemValues == {MEMORY_WARN_THRESHOLD_BYTES - 103, MEMORY_WARN_THRESHOLD_BYTES}
\* committed (virtual) memory in GB: half of its warning threshold, and the
\* threshold itself
VmValues == {VIRTUAL_MEMORY_WARN_THRESHOLD_GB - 40, VIRTUAL_MEMORY_WARN_THRESHOLD_GB}
\* file counts _count_files_in_output_dir can return
FileCounts == {5, 6}
\* lateness (ms) of a tick relative to its after() deadline: none, or so
\* late that one detector window separates it from the previous tick
TimerLags == {0, (WEBUI_CHECK_INTERVAL_SECONDS - 1) * 1000 - UPDATE_INTERVAL_MS}
\* file counts in the stall detector runs: an empty or missing output
\* directory counts 0 files
StallCounts == {0} \cup FileCounts
\* spacing of detector calls in the stall detector runs
ClockSteps == {14000, 15000}
\* spacing of samples in the committed-memory logger runs: a second less
\* than half the logging interval, and half of it
VmClockSteps == {VM_LOG_INTERVAL_SECONDS * 500 - 1000, VM_LOG_INTERVAL_SECONDS * 500}
\* committed memory (GB) seen by the logger
VmReadings == {38, 40, 45}

----------------------------------------------------------------------------
\* Results of a fetch: a sample (the dict _fetch_all_data returns) or the
\* exception the future carries.  id is the tick that submitted the fetch.

Sample(i, current_time, mem_used_bytes, vram_system_used_gb, alert) ==
    [kind |-> "data", id |-> i, time |-> current_time, mem |-> mem_used_bytes,
     vm |-> vram_system_used_gb, alert |-> alert]
FetchError(i) ==
    [kind |-> "error", id |-> i, time |-> 0, mem |-> 0, vm |-> 0,
     alert |-> FALSE]

\* What the last step did (history, read by the properties only).
Step(op) ==
    [op |-> op, branch |-> "none", cond |-> "none", was_active |-> FALSE,
     was_run |-> 0, was_low |-> 0, was_plays |-> 0, was_playing |-> FALSE, plays |-> 0,
     stops |-> 0, duration |-> 0, alert |-> FALSE, elapsed |-> 0,
     was_streak |-> 0, fc |-> 0, was_file_count |-> 0, mem |-> 0,
     id |-> 0, vm |-> 0, raised |-> FALSE, log |-> "none", delta |-> 0,
     was_boundary_alert |-> FALSE]

\* The aggregated condition of a result, as the claims define it: dedicated
\* memory below 8 GB, or the stall alert.
Aggregated(res) ==
    IF res.kind = "error" THEN "error"
    ELSE IF res.mem < MEMORY_WARN_THRESHOLD_GB * 1024 \/ res.alert THEN "met"
    ELSE "clear"

\* Mutant: the record is due only after the whole interval.
VmLogDue_strict(time_since_last_record) ==
    time_since_last_record >= VM_LOG_INTERVAL_SECONDS * 1000

\* time_since_last_record >= CONFIG.VM_LOG_INTERVAL_SECONDS - 1.0
VmLogDue(time_since_last_record) ==
    time_since_last_record >= VM_LOG_INTERVAL_SECONDS * 1000 - 1000

\* increase_gb = vram_system_used_gb - self.last_vm_used_gb
VmIncrease(vram_system_used_gb) ==
    vram_system_used_gb - last_vm_used_gb

\* The record _log_vm_usage_periodically emits for these arguments: "init"
\* on the first call, "periodic" when the interval has elapsed, else "none".
VmLogRecord(current_time, vram_system_used_gb) ==
    IF first_vm_record_time = None
    THEN [log |-> "init", delta |-> 0]
    ELSE IF VmLogDue(current_time - last_vm_record_time)
    THEN [log |-> "periodic", delta |-> VmIncrease(vram_system_used_gb)]
    ELSE [log |-> "none", delta |-> 0]

\* _log_vm_usage_periodically: the logger's fields after the call.
_log_vm_usage_periodically(current_time, vram_system_used_gb) ==
    IF first_vm_record_time = None
    THEN /\ first_vm_record_time' = current_time
         /\ first_vm_used_gb' = vram_system_used_gb
         /\ last_vm_record_time' = current_time
         /\ last_vm_used_gb' = vram_system_used_gb
    ELSE IF VmLogDue(current_time - last_vm_record_time)
    THEN /\ last_vm_record_time' = current_time
         /\ last_vm_used_gb' = vram_system_used_gb
         /\ UNCHANGED <<first_vm_record_time, first_vm_used_gb>>
    ELSE UNCHANGED logVars

\* The step that applies res, as seen from the state before it.
Applied(res) ==
    [Step("apply") EXCEPT !.cond = Aggregated(res), !.mem = res.mem,
        !.alert = res.alert, !.id = res.id, !.vm = res.vm,
        !.log = IF res.kind = "error" THEN "none"
                ELSE VmLogRecord(res.time, res.vm).log,
        !.delta = IF res.kind = "error" THEN 0
                  ELSE VmLogRecord(res.time, res.vm).delta,
        !.was_active = is_alarm_active, !.was_run = met_run,
        !.was_low = low_run,
        !.was_plays = run_plays,
        !.was_playing = (playback # "none" /\ playback_active)]

----------------------------------------------------------------------------
\* monitor_data.py: DataCollector.check_webui_generation_status

\* Mutant: the tolerance of one second doubled.
WindowElapsed_early(time_since_last_check) ==
    time_since_last_check >= WEBUI_CHECK_INTERVAL_SECONDS * 1000 - 2000

\* time_since_last_check >= CONFIG.WEBUI_CHECK_INTERVAL_SECONDS - 1.0
WindowElapsed(time_since_last_check) ==
    time_since_last_check >= WEBUI_CHECK_INTERVAL_SECONDS * 1000 - 1000

\* current_file_count > self.last_webui_file_count
\* Mutant: the count is never seen to increase.
CountIncreased_never(current_file_count) ==
    FALSE

\* Mutant: a count that differs from the baseline, lower or higher, counts
\* as an increase.
CountIncreased_changed(current_file_count) ==
    current_file_count # last_webui_file_count

CountIncreased(current_file_count) ==
    current_file_count > last_webui_file_count

\* Mutant: the alert is raised after the first window without an increase.
StallThresholdReached_first(no_increase_count) ==
    no_increase_count >= 1

\* Mutant: > in place of >=.
StallThresholdReached_strict(no_increase_count) ==
    no_increase_count > WEBUI_WARN_CYCLE_THRESHOLD

\* self.consecutive_webui_no_increase_count >= CONFIG.WEBUI_WARN_CYCLE_THRESHOLD
StallThresholdReached(no_increase_count) ==
    no_increase_count >= WEBUI_WARN_CYCLE_THRESHOLD

\* Mutant: the sentinel test takes an empty directory for "no baseline".
Uninitialised_falsy ==
    last_webui_file_count <= 0

\* if self.last_webui_file_count == -1
Uninitialised ==
    last_webui_file_count = -1

\* Mutant: inside the window no alert is returned.
InsideWindowAlert_silent(current_file_count) ==
    FALSE

\* Mutant: inside the window the alert is recomputed from the current count.
InsideWindowAlert_recomputed(current_file_count) ==
    /\ ~CountIncreased(current_file_count)
    /\ StallThresholdReached(consecutive_webui_no_increase_count)

\* The alert returned inside the window: the elif branch reads the streak
\* and never the current count.
InsideWindowAlert(current_file_count) ==
    /\ consecutive_webui_no_increase_count > 0
    /\ StallThresholdReached(consecutive_webui_no_increase_count)

\* The detector's fields after the call and the returned alert flag; branch
\* names the path taken through the method.
check_webui_generation_status(current_time, current_file_count) ==
    IF Uninitialised
    THEN [count |-> current_file_count, time |-> current_time,
          streak |-> consecutive_webui_no_increase_count,
          alert |-> FALSE, branch |-> "init"]
    ELSE IF WindowElapsed(current_time - last_webui_check_time)
    THEN LET streak == IF CountIncreased(current_file_count)
                       THEN 0
                       ELSE consecutive_webui_no_increase_count + 1
         IN [count |-> current_file_count, time |-> current_time,
             streak |-> streak,
             alert |-> (~CountIncreased(current_file_count)
                        /\ StallThresholdReached(streak)),
             branch |-> "boundary"]
    ELSE [count |-> last_webui_file_count, time |-> last_webui_check_time,
          streak |-> consecutive_webui_no_increase_count,
          alert |-> InsideWindowAlert(current_file_count),
          branch |-> "inside"]

----------------------------------------------------------------------------
\* sd_webui_monitor.py: IntelArcMonitorApp

InFlight == Len(pending) + Cardinality(running) + Len(afterq)

\* Mutant: the tick submits a fetch without counting it.
update_gpu_info_uncounted(lag) ==
    /\ ~closed
    /\ late_ticks' = IF lag > 0 THEN late_ticks + 1 ELSE late_ticks
    /\ total_checks' = total_checks
    /\ pending' = Append(pending, total_checks + 1)
    /\ now' = now + UPDATE_INTERVAL_MS + lag
    /\ last' = Step("tick")
    /\ UNCHANGED <<envVars, playback_active, success_count, failure_count,
                   alarmVars, stallVars, running, afterq, closed, met_run,
                   low_run, run_plays, logVars,
                   stall_calls, boundary_alert>>

\* Mutant: the tick waits for the running fetches before it submits.
update_gpu_info_waits(lag) ==
    /\ ~closed
    /\ running = {}
    /\ late_ticks' = IF lag > 0 THEN late_ticks + 1 ELSE late_ticks
    /\ total_checks' = total_checks + 1
    /\ pending' = Append(pending, total_checks + 1)
    /\ now' = now + UPDATE_INTERVAL_MS + lag
    /\ last' = Step("tick")
    /\ UNCHANGED <<envVars, playback_active, success_count, failure_count,
                   alarmVars, stallVars, running, afterq, closed, met_run,
                   low_run, run_plays, logVars,
                   stall_calls, boundary_alert>>

\* update_gpu_info: count the tick, submit one fetch, schedule the next tick.
\* The Tk timer fires the tick UPDATE_INTERVAL_MS after the previous one, or
\* later by lag.
update_gpu_info(lag) ==
    /\ ~closed
    /\ late_ticks' = IF lag > 0 THEN late_ticks + 1 ELSE late_ticks
    /\ total_checks' = total_checks + 1
    /\ pending' = Append(pending, total_checks + 1)
    /\ now' = now + UPDATE_INTERVAL_MS + lag
    /\ last' = Step("tick")
    /\ UNCHANGED <<envVars, playback_active, success_count, failure_count,
                   alarmVars, stallVars, running, afterq, closed, met_run,
                   low_run, run_plays, logVars,
                   stall_calls, boundary_alert>>

\* get_gpu_stats_windows: mem_used_bytes is the counters' sum, or 0.0 when
\* reading them raised (or the system is not Windows).
get_gpu_stats_windows(counters_ok, local_usage) ==
    IF counters_ok THEN local_usage ELSE 0

\* Does the fetch reach check_webui_generation_status?  The modular copy
\* raises on system_stats None before the call (sd_webui_monitor.py:154); the
\* single-file copy calls it (sd-webui_monitor.py:605) before dividing the
\* None it got from _get_system_stats_psutil (sd-webui_monitor.py:612).
FetchReachesStallCheck(system_stats_ok) ==
    system_stats_ok \/ layout = "single_file"

\* _fetch_all_data on a worker thread: one fetch taken from the executor's
\* queue; its outcome is held by the worker until the done-callback runs.
\* The stall check inside it is taken as one step here; SpecRace interleaves
\* the checks of two workers.
_fetch_all_data(system_stats_ok, mem_used_bytes, vm_used_gb, current_file_count) ==
    /\ pending # <<>>
    /\ Cardinality(running) < max_workers
    /\ LET i == Head(pending)
           chk == check_webui_generation_status(now, current_file_count)
           res == IF system_stats_ok
                  THEN Sample(i, now, mem_used_bytes, vm_used_gb, chk.alert)
                  ELSE FetchError(i)
       IN /\ pending' = Tail(pending)
          /\ running' = running \cup {res}
          /\ IF FetchReachesStallCheck(system_stats_ok)
             THEN /\ last_webui_file_count' = chk.count
                  /\ last_webui_check_time' = chk.time
                  /\ consecutive_webui_no_increase_count' = chk.streak
                  /\ boundary_alert' = IF chk.branch = "inside"
                                       THEN boundary_alert ELSE chk.alert
             ELSE UNCHANGED <<stallVars, boundary_alert>>
          /\ last' = [Step("fetch") EXCEPT
                         !.branch = IF system_stats_ok THEN chk.branch
                                    ELSE "failed",
                         !.alert = res.alert, !.id = i]
    /\ UNCHANGED <<now, late_ticks, envVars, playback_active, appVars, afterq, closed,
                   met_run, low_run, run_plays, logVars, stall_calls>>

\* Mutant: the done-callback loses the result instead of scheduling it.
_on_data_fetch_complete_drops(res) ==
    /\ res \in running
    /\ running' = running \ {res}
    /\ afterq' = afterq
    /\ last' = Step("done")
    /\ UNCHANGED <<now, late_ticks, envVars, playback_active, appVars, stallVars, pending,
                   closed, met_run, low_run, run_plays, logVars,
                   stall_calls, boundary_alert>>

\* Mutant: the done-callback schedules the result even when the window has
\* been destroyed.
_on_data_fetch_complete_after_destroy(res) ==
    /\ res \in running
    /\ running' = running \ {res}
    /\ afterq' = Append(afterq, res)
    /\ last' = Step("done")
    /\ UNCHANGED <<now, late_ticks, envVars, playback_active, appVars, stallVars, pending,
                   closed, met_run, low_run, run_plays, logVars,
                   stall_calls, boundary_alert>>

\* Mutant: the done-callback puts the result back into submission order.
_on_data_fetch_complete_resequenced(res) ==
    /\ res \in running
    /\ running' = running \ {res}
    /\ afterq' = SelectSeq(afterq, LAMBDA r : r.id < res.id) \o <<res>>
                     \o SelectSeq(afterq, LAMBDA r : r.id > res.id)
    /\ last' = Step("done")
    /\ UNCHANGED <<now, late_ticks, envVars, playback_active, appVars, stallVars, pending,
                   closed, met_run, low_run, run_plays, logVars,
                   stall_calls, boundary_alert>>

\* _on_data_fetch_complete: the done-callback schedules the result on the
\* main thread with master.after(0, ...); after on_closing the window is
\* destroyed and nothing is scheduled.
_on_data_fetch_complete(res) ==
    /\ res \in running
    /\ running' = running \ {res}
    /\ afterq' = IF closed THEN afterq ELSE Append(afterq, res)
    /\ last' = Step("done")
    /\ UNCHANGED <<now, late_ticks, envVars, playback_active, appVars, stallVars, pending,
                   closed, met_run, low_run, run_plays, logVars,
                   stall_calls, boundary_alert>>

\* Mutant: the memory condition has a debounce of its own and reports from
\* the second sample below the threshold on.
is_vram_warn_met_debounced(mem_used_bytes) ==
    mem_used_bytes < MEMORY_WARN_THRESHOLD_BYTES /\ low_run >= 1

\* Mutant: a reading of 0 is taken as "no reading" and does not count.
is_vram_warn_met_nonzero(mem_used_bytes) ==
    mem_used_bytes > 0 /\ mem_used_bytes < MEMORY_WARN_THRESHOLD_BYTES

\* Mutant: <= in place of <.
is_vram_warn_met_inclusive(mem_used_bytes) ==
    mem_used_bytes <= MEMORY_WARN_THRESHOLD_BYTES

\* mem_used_bytes < CONFIG.MEMORY_WARN_THRESHOLD_BYTES
is_vram_warn_met(mem_used_bytes) ==
    mem_used_bytes < MEMORY_WARN_THRESHOLD_BYTES

\* Mutant: every sample counts as met.
is_interrupt_warn_met_always(fetched_data) ==
    TRUE

\* Mutant: committed memory at its threshold also raises the condition.
is_interrupt_warn_met_committed(fetched_data) ==
    \/ is_vram_warn_met(fetched_data.mem)
    \/ fetched_data.alert
    \/ fetched_data.vm >= VIRTUAL_MEMORY_WARN_THRESHOLD_GB

\* is_vram_warn_met or is_webui_alert_active
is_interrupt_warn_met(fetched_data) ==
    is_vram_warn_met(fetched_data.mem) \/ fetched_data.alert

\* Mutant: the alarm fires on the first met sample.
WarnThresholdReached_at_once(warn_count) ==
    warn_count >= 1

\* Mutant: the alarm fires one sample early.
WarnThresholdReached_early(warn_count) ==
    warn_count >= WARN_COUNT_THRESHOLD - 1

\* self.consecutive_warn_count >= CONFIG.WARN_COUNT_THRESHOLD
WarnThresholdReached(warn_count) ==
    warn_count >= WARN_COUNT_THRESHOLD

\* Mutant: the clip is restarted on every tick of an active alarm.
ReplayNeeded_every_tick ==
    is_alarm_active /\ playback # "none"

\* Mutant: the re-arm does not look at playback.active.
ReplayNeeded_unguarded ==
    is_alarm_active

\* elif self.is_alarm_active and self.playback and not self.playback.active
ReplayNeeded ==
    is_alarm_active /\ playback # "none" /\ ~playback_active

\* Mutant: the recovery forgets to stop the clip.
StopNeeded_never ==
    FALSE

\* Mutant: stop() is called whether or not the clip is playing.
StopNeeded_unconditional ==
    playback # "none"

\* if self.playback and self.playback.active: self.playback.stop()
StopNeeded ==
    playback # "none" /\ playback_active

\* Mutant: the clip counts as started even when play() raised.
PlaybackActiveAfterPlay_unfailing(play_raises) ==
    IF playback # "none"
    THEN TRUE
    ELSE playback_active

\* _play_beep_alarm: playback.active after the call.  With a playback object
\* (Windows only) the clip is restarted (stop, seek(0), play); if that raises,
\* or without a playback object, a system beep sounds and no clip plays.
PlaybackActiveAfterPlay(play_raises) ==
    IF playback # "none"
    THEN ~play_raises
    ELSE playback_active

\* Mutant: the start time is not recorded.
StartTimeOnActivation_forgotten ==
    alarm_start_time

\* if self.alarm_start_time is None: self.alarm_start_time = time.time()
StartTimeOnActivation ==
    IF alarm_start_time = None THEN now ELSE alarm_start_time

\* Mutant: the activation leaves the counter at the threshold.
WarnCountOnActivation_kept ==
    consecutive_warn_count + 1

\* self.consecutive_warn_count = 0 on activation
WarnCountOnActivation ==
    0

\* Mutant: the debounce counts on while the alarm is active.
AlarmIdle_unchecked ==
    TRUE

\* if not self.is_alarm_active
AlarmIdle ==
    ~is_alarm_active

\* The alarm branch of _process_fetched_data for a sample whose aggregated
\* condition is met.
ConditionMet(fetched_data, play_raises) ==
    IF AlarmIdle
    THEN IF WarnThresholdReached(consecutive_warn_count + 1)
         THEN /\ alarm_start_time' = StartTimeOnActivation
              /\ is_alarm_active' = TRUE
              /\ failure_count' = failure_count + 1
              /\ consecutive_warn_count' = WarnCountOnActivation
              /\ playback_count' = playback_count + 1
              /\ playback_active' = PlaybackActiveAfterPlay(play_raises)
              /\ run_plays' = run_plays + 1
              /\ last' = [Applied(fetched_data) EXCEPT
                             !.branch = "activate", !.plays = 1,
                             !.raised = (playback # "none" /\ play_raises)]
         ELSE /\ consecutive_warn_count' = consecutive_warn_count + 1
              /\ last' = [Applied(fetched_data) EXCEPT !.branch = "arming"]
              /\ UNCHANGED <<alarm_start_time, is_alarm_active, failure_count,
                             playback_count, playback_active, run_plays>>
    ELSE IF ReplayNeeded
         THEN /\ playback_count' = playback_count + 1
              /\ playback_active' = PlaybackActiveAfterPlay(play_raises)
              /\ run_plays' = run_plays + 1
              /\ last' = [Applied(fetched_data) EXCEPT
                             !.branch = "replay", !.plays = 1,
                             !.raised = (playback # "none" /\ play_raises)]
              /\ UNCHANGED <<alarm_start_time, is_alarm_active, failure_count,
                             consecutive_warn_count>>
         ELSE /\ last' = [Applied(fetched_data) EXCEPT !.branch = "active"]
              /\ UNCHANGED <<alarm_start_time, is_alarm_active, failure_count,
                             consecutive_warn_count, playback_count,
                             playback_active, run_plays>>

\* Mutant: the replay counter is not reset.
PlaybackCountOnClear_kept ==
    playback_count

\* playback_count after the recovery block: reset together with
\* alarm_start_time when the alarm was active.
PlaybackCountOnClear ==
    IF is_alarm_active /\ alarm_start_time # None THEN 0 ELSE playback_count

\* time.time() - self.alarm_start_time
AlarmDuration == now - alarm_start_time

\* The branch of _process_fetched_data for a sample whose aggregated
\* condition is not met.
ConditionCleared(fetched_data) ==
    /\ is_alarm_active' = FALSE
    /\ alarm_start_time' = IF is_alarm_active /\ alarm_start_time # None
                           THEN None ELSE alarm_start_time
    /\ playback_count' = PlaybackCountOnClear
    /\ playback_active' = IF is_alarm_active /\ StopNeeded
                          THEN FALSE ELSE playback_active
    /\ consecutive_warn_count' = 0
    /\ success_count' = success_count + 1
    /\ run_plays' = 0
    /\ last' = [Applied(fetched_data) EXCEPT
                   !.stops = IF is_alarm_active /\ StopNeeded THEN 1 ELSE 0,
                   !.duration = IF is_alarm_active /\ alarm_start_time # None
                                THEN AlarmDuration ELSE 0,
                   !.branch = IF is_alarm_active THEN "recover"
                              ELSE IF consecutive_warn_count > 0 THEN "disarm"
                              ELSE "normal"]
    /\ UNCHANGED failure_count

\* _process_fetched_data on the main thread: the oldest scheduled callback of
\* the Tk event queue runs to completion.
_process_fetched_data(play_raises) ==
    /\ ~closed
    /\ afterq # <<>>
    /\ LET res == Head(afterq)
       IN /\ afterq' = Tail(afterq)
          /\ IF res.kind = "error"
             THEN /\ failure_count' = failure_count + 1
                  /\ last' = [Applied(res) EXCEPT !.branch = "error"]
                  /\ UNCHANGED <<success_count, alarmVars, playback_active,
                                 met_run, low_run, run_plays, logVars>>
             ELSE IF is_interrupt_warn_met(res)
             THEN /\ ConditionMet(res, play_raises)
                  /\ _log_vm_usage_periodically(res.time, res.vm)
                  /\ met_run' = IF met_run < WARN_COUNT_THRESHOLD
                                THEN met_run + 1 ELSE met_run
                  /\ low_run' = IF res.mem >= MEMORY_WARN_THRESHOLD_GB * 1024
                                THEN 0
                                ELSE IF low_run < WARN_COUNT_THRESHOLD
                                THEN low_run + 1 ELSE low_run
                  /\ UNCHANGED success_count
             ELSE /\ ConditionCleared(res)
                  /\ _log_vm_usage_periodically(res.time, res.vm)
                  /\ met_run' = 0
                  /\ low_run' = 0
    /\ UNCHANGED <<now, late_ticks, envVars, total_checks, stallVars, pending,
                   running, closed, stall_calls, boundary_alert>>

\* _process_fetched_data when update_labels_with_data raises for a fetched
\* sample (sd_webui_monitor.py:229): the method has no try/except, so the
\* exception leaves it before the alarm logic and the counters; Tk reports
\* it and goes on with the main loop.
_process_fetched_data_raises ==
    /\ ~closed
    /\ afterq # <<>>
    /\ Head(afterq).kind = "data"
    /\ afterq' = Tail(afterq)
    /\ last' = [Applied(Head(afterq)) EXCEPT !.branch = "raised"]
    /\ UNCHANGED <<now, late_ticks, envVars, playback_active, appVars, stallVars,
                   pending, running, closed, met_run, low_run, run_plays, logVars,
                   stall_calls, boundary_alert>>

\* The sound engine reaches the end of the clip: playback.active turns false.
ClipFinished ==
    /\ playback # "none"
    /\ playback_active
    /\ playback_active' = FALSE
    /\ last' = Step("clip")
    /\ UNCHANGED <<now, late_ticks, envVars, appVars, stallVars, poolVars,
                   met_run, low_run, run_plays, logVars,
                   stall_calls, boundary_alert>>

\* Mutant: executor.shutdown(wait=True): closing waits for the running
\* fetches.
on_closing_waits ==
    /\ ~closed
    /\ running = {}
    /\ closed' = TRUE
    /\ pending' = <<>>
    /\ afterq' = <<>>
    /\ last' = Step("close")
    /\ UNCHANGED <<now, late_ticks, envVars, playback_active, appVars, stallVars, running,
                   met_run, low_run, run_plays, logVars,
                   stall_calls, boundary_alert>>

\* on_closing: executor.shutdown(wait=False, cancel_futures=True) cancels the
\* queued fetches; master.destroy() drops the pending Tk callbacks and timers.
on_closing ==
    /\ ~closed
    /\ closed' = TRUE
    /\ pending' = <<>>
    /\ afterq' = <<>>
    /\ last' = Step("close")
    /\ UNCHANGED <<now, late_ticks, envVars, playback_active, appVars, stallVars, running,
                   met_run, low_run, run_plays, logVars,
                   stall_calls, boundary_alert>>

----------------------------------------------------------------------------
\* The application after __init__: the constructor has made the first
\* update_gpu_info call, so one fetch is submitted and nothing is applied
\* yet.  _init_playback leaves a Playback object on Windows unless
\* constructing it raised; on any other system self.playback stays None.

InitApp ==
    /\ now = 0
    /\ late_ticks = 0
    /\ playback \in {"none", "object"}
    /\ playback_active = FALSE
    /\ total_checks = 1 /\ success_count = 0 /\ failure_count = 0
    /\ is_alarm_active = FALSE
    /\ consecutive_warn_count = 0
    /\ alarm_start_time = None
    /\ playback_count = 0
    /\ last_webui_check_time = 0
    /\ last_webui_file_count = -1
    /\ consecutive_webui_no_increase_count = 0
    /\ pending = <<1>> /\ running = {} /\ afterq = <<>>
    /\ closed = FALSE
    /\ first_vm_record_time = None /\ first_vm_used_gb = None
    /\ last_vm_record_time = None /\ last_vm_used_gb = None
    /\ stall_calls = {}
    /\ boundary_alert = FALSE
    /\ met_run = 0 /\ low_run = 0 /\ run_plays = 0
    /\ last = Step("init")

Init == InitApp /\ layout = "modular"

\* A tick within the bounds of the model.
Tick(max_checks) ==
    \E lag \in TimerLags :
        /\ total_checks < max_checks
        /\ InFlight < MaxInFlight
        /\ lag > 0 => late_ticks < MaxLateTicks
        /\ update_gpu_info(lag)

Fetch ==
    \E ok \in BOOLEAN, m \in MemValues, fc \in FileCounts :
        _fetch_all_data(ok, m, VIRTUAL_MEMORY_WARN_THRESHOLD_GB - 40, fc)

Done == \E res \in running : _on_data_fetch_complete(res)

Apply == \E raises \in BOOLEAN : _process_fetched_data(raises)

\* The fetch pipeline: ticks fire whether or not earlier fetches have
\* completed.
Next ==
    \/ Tick(MaxOverlapChecks)
    \/ Fetch
    \/ Done
    \/ Apply

Spec == Init /\ [][Next]_vars

\* Every fetch completes and is applied within its tick period, so no two
\* fetches overlap; this reaches the long runs the alarm needs.
NextSerial ==
    \/ (InFlight = 0 /\ Tick(MaxChecks))
    \/ Fetch
    \/ Done
    \/ Apply
    \/ ClipFinished

SpecSerial == Init /\ [][NextSerial]_vars

\* The application with the window's close button in reach.
NextClosing ==
    \/ NextSerial
    \/ on_closing

SpecClosing == Init /\ [][NextClosing]_vars

\* The application with a punctual timer, a pool whose workers take up the
\* queued fetch and run their done-callback, and a Tk main loop that runs
\* the callbacks scheduled with after(0, ...).
TickOnTime ==
    /\ InFlight = 0
    /\ total_checks < MaxChecks
    /\ update_gpu_info(0)

NextLive ==
    \/ TickOnTime
    \/ Fetch
    \/ Done
    \/ Apply
    \/ ClipFinished

SpecLive ==
    /\ Init
    /\ [][NextLive]_vars
    /\ WF_vars(Fetch) /\ WF_vars(Done) /\ WF_vars(Apply)

\* The application when at most one of the two metric sources (GPU
\* performance counters, psutil system statistics) is unavailable in a tick;
\* the counters, when they can be read, give 8 GB.
FetchPartial ==
    \E counters_ok \in BOOLEAN, system_stats_ok \in BOOLEAN, fc \in FileCounts :
        /\ counters_ok \/ system_stats_ok
        /\ _fetch_all_data(system_stats_ok,
               get_gpu_stats_windows(counters_ok, MEMORY_WARN_THRESHOLD_BYTES),
               VIRTUAL_MEMORY_WARN_THRESHOLD_GB - 40, fc)

NextPartial ==
    \/ (InFlight = 0 /\ Tick(MaxChecks))
    \/ FetchPartial
    \/ Done
    \/ Apply
    \/ ClipFinished

SpecPartial == Init /\ [][NextPartial]_vars

\* The application when updating the labels can fail for a sample.
NextUnexpected ==
    \/ NextLive
    \/ _process_fetched_data_raises

SpecUnexpected == Init /\ [][NextUnexpected]_vars

\* The application with a punctual timer over a horizon long enough for an
\* activation, a recovery and a second activation.
TickPunctual(max_checks) ==
    /\ InFlight = 0
    /\ total_checks < max_checks
    /\ update_gpu_info(0)

NextRetrigger ==
    \/ TickPunctual(MaxRetriggerChecks)
    \/ Fetch
    \/ Done
    \/ Apply
    \/ ClipFinished

SpecRetrigger == Init /\ [][NextRetrigger]_vars

\* The application while dedicated memory stays at its threshold: only the
\* stall alert can make the aggregated condition true.
FetchHighMemory ==
    \E ok \in BOOLEAN, fc \in FileCounts :
        _fetch_all_data(ok, MEMORY_WARN_THRESHOLD_BYTES,
                        VIRTUAL_MEMORY_WARN_THRESHOLD_GB - 40, fc)

NextHighMemory ==
    \/ (InFlight = 0 /\ Tick(MaxChecks))
    \/ FetchHighMemory
    \/ Done
    \/ Apply
    \/ ClipFinished

SpecHighMemory == Init /\ [][NextHighMemory]_vars

\* The application with committed memory read on either side of its 80 GB
\* threshold; system statistics are always available.
FetchCommitted ==
    \E m \in MemValues, vm \in VmValues, fc \in FileCounts :
        _fetch_all_data(TRUE, m, vm, fc)

NextCommitted ==
    \/ (InFlight = 0 /\ Tick(MaxChecks))
    \/ FetchCommitted
    \/ Done
    \/ Apply
    \/ ClipFinished

SpecCommitted == Init /\ [][NextCommitted]_vars

\* The stall detector alone: check_webui_generation_status is called on one
\* thread with the current time, the calls a clock step apart.
TimePasses(step) ==
    /\ now + step <= MaxStallTime
    /\ now' = now + step
    /\ last' = Step("clock")
    /\ UNCHANGED <<late_ticks, envVars, playback_active, appVars, stallVars,
                   poolVars, met_run, low_run, run_plays, logVars,
                   stall_calls, boundary_alert>>

StallCheck(current_file_count) ==
    LET chk == check_webui_generation_status(now, current_file_count)
    IN /\ last_webui_file_count' = chk.count
       /\ last_webui_check_time' = chk.time
       /\ consecutive_webui_no_increase_count' = chk.streak
       /\ boundary_alert' = IF chk.branch = "inside"
                            THEN boundary_alert ELSE chk.alert
       /\ last' = [Step("check") EXCEPT !.branch = chk.branch,
                      !.was_boundary_alert = boundary_alert,
                      !.alert = chk.alert,
                      !.elapsed = now - last_webui_check_time,
                      !.was_streak = consecutive_webui_no_increase_count,
                      !.fc = current_file_count,
                      !.was_file_count = last_webui_file_count]
       /\ UNCHANGED <<now, late_ticks, envVars, playback_active, appVars,
                      poolVars, met_run, low_run, run_plays, logVars,
                      stall_calls>>

NextStall ==
    \/ \E step \in ClockSteps : TimePasses(step)
    \/ \E fc \in StallCounts : StallCheck(fc)

SpecStall == Init /\ [][NextStall]_vars

\* The committed-memory logger alone: _log_vm_usage_periodically is called
\* with the time and the committed memory of successive samples.
VmTimePasses(step) ==
    /\ now + step <= MaxVmLogTime
    /\ now' = now + step
    /\ last' = Step("clock")
    /\ UNCHANGED <<late_ticks, envVars, playback_active, appVars, stallVars,
                   poolVars, met_run, low_run, run_plays, logVars,
                   stall_calls, boundary_alert>>

LogVm(vram_system_used_gb) ==
    /\ _log_vm_usage_periodically(now, vram_system_used_gb)
    /\ last' = [Step("log") EXCEPT
                   !.log = VmLogRecord(now, vram_system_used_gb).log,
                   !.delta = VmLogRecord(now, vram_system_used_gb).delta,
                   !.vm = vram_system_used_gb,
                   !.elapsed = now - last_vm_record_time]
    /\ UNCHANGED <<now, late_ticks, envVars, playback_active, appVars, stallVars,
                   poolVars, met_run, low_run, run_plays, stall_calls,
                   boundary_alert>>

NextVmLog ==
    \/ \E step \in VmClockSteps : VmTimePasses(step)
    \/ \E vm \in VmReadings : LogVm(vm)

SpecVmLog == Init /\ [][NextVmLog]_vars

\* Mutant: an absent directory is reported with the sentinel.
_count_files_in_output_dir_sentinel(dir_readable, file_count) ==
    IF dir_readable THEN file_count ELSE -1

\* _count_files_in_output_dir: the number of files of today's directory, or
\* 0 when the directory does not exist or listing it raised.
_count_files_in_output_dir(dir_readable, file_count) ==
    IF dir_readable THEN file_count ELSE 0

\* The stall detector alone, with an output directory that can be absent or
\* unreadable at any call.
StallCheckDir ==
    \E dir_readable \in BOOLEAN, n \in FileCounts :
        StallCheck(_count_files_in_output_dir(dir_readable, n))

NextAbsentDir ==
    \/ \E step \in ClockSteps : TimePasses(step)
    \/ StallCheckDir

SpecAbsentDir == Init /\ [][NextAbsentDir]_vars

\* The stall detector called from the pool's worker threads with no lock:
\* a call that has found the window elapsed (monitor_data.py:205) can be
\* overtaken by another worker's call before it compares the count and
\* writes the detector's fields (monitor_data.py:207-222).
Workers == 1..max_workers

StallCheckEnter(w, current_file_count) ==
    /\ \A c \in stall_calls : c.w # w
    /\ IF Uninitialised
       THEN /\ last_webui_file_count' = current_file_count
            /\ last_webui_check_time' = now
            /\ boundary_alert' = FALSE
            /\ last' = [Step("check") EXCEPT !.branch = "init",
                           !.fc = current_file_count,
                           !.was_file_count = last_webui_file_count]
            /\ UNCHANGED <<consecutive_webui_no_increase_count, stall_calls>>
       ELSE IF WindowElapsed(now - last_webui_check_time)
       THEN /\ stall_calls' = stall_calls \cup
                   {[w |-> w, time |-> now, fc |-> current_file_count]}
            /\ last' = [Step("enter") EXCEPT
                           !.elapsed = now - last_webui_check_time,
                           !.fc = current_file_count]
            /\ UNCHANGED <<stallVars, boundary_alert>>
       ELSE /\ last' = [Step("check") EXCEPT !.branch = "inside",
                           !.alert = InsideWindowAlert(current_file_count),
                           !.elapsed = now - last_webui_check_time,
                           !.was_streak = consecutive_webui_no_increase_count,
                           !.fc = current_file_count,
                           !.was_file_count = last_webui_file_count,
                           !.was_boundary_alert = boundary_alert]
            /\ UNCHANGED <<stallVars, stall_calls, boundary_alert>>
    /\ UNCHANGED <<now, late_ticks, envVars, playback_active, appVars,
                   poolVars, met_run, low_run, run_plays, logVars>>

StallCheckCommit(c) ==
    /\ c \in stall_calls
    /\ stall_calls' = stall_calls \ {c}
    /\ LET streak == IF CountIncreased(c.fc)
                      THEN 0
                      ELSE consecutive_webui_no_increase_count + 1
           alert == ~CountIncreased(c.fc) /\ StallThresholdReached(streak)
       IN /\ consecutive_webui_no_increase_count' = streak
          /\ last_webui_file_count' = c.fc
          /\ last_webui_check_time' = c.time
          /\ boundary_alert' = alert
          /\ last' = [Step("check") EXCEPT !.branch = "boundary",
                         !.alert = alert,
                         !.elapsed = c.time - last_webui_check_time,
                         !.was_streak = consecutive_webui_no_increase_count,
                         !.fc = c.fc,
                         !.was_file_count = last_webui_file_count,
                         !.was_boundary_alert = boundary_alert]
    /\ UNCHANGED <<now, late_ticks, envVars, playback_active, appVars,
                   poolVars, met_run, low_run, run_plays, logVars>>

EnterStall == \E w \in Workers, fc \in FileCounts : StallCheckEnter(w, fc)

CommitStall == \E c \in stall_calls : StallCheckCommit(c)

NextRace ==
    \/ \E step \in ClockSteps : TimePasses(step)
    \/ EnterStall
    \/ CommitStall

SpecRace == Init /\ [][NextRace]_vars

\* The single-file copy of the application (sd-webui_monitor.py).
InitSingleFile == InitApp /\ layout = "single_file"

SpecSingleFile == InitSingleFile /\ [][Next]_vars

----------------------------------------------------------------------------
\* Properties of the alarm lifecycle (SpecSerial)

\* C1: from Idle, WARN_COUNT_THRESHOLD - 1 consecutive samples whose
\* aggregated condition is met followed by one whose condition is not met
\* leave consecutive_warn_count at 0; the alarm never became active and
\* _play_beep_alarm was never invoked in that run.
C1_DisarmBeforeThreshold ==
    (last.op = "apply" /\ last.cond = "clear"
        /\ last.was_run = WARN_COUNT_THRESHOLD - 1)
    => /\ consecutive_warn_count = 0
       /\ ~is_alarm_active
       /\ ~last.was_active
       /\ last.was_plays = 0 /\ last.plays = 0
       /\ playback_count = 0 /\ ~playback_active

C1_Witness ==
    /\ last.op = "apply" /\ last.cond = "clear"
    /\ last.was_run = WARN_COUNT_THRESHOLD - 1
    /\ last.branch = "disarm"

\* The alarm is active exactly from the 7th consecutive met sample on, and
\* a sample below the dedicated-memory threshold leaves it active exactly if
\* it is at least the 7th of its run.
LowSampleActivatesAtSeventh ==
    /\ is_alarm_active <=> met_run = WARN_COUNT_THRESHOLD
    /\ low_run <= met_run
    /\ (last.op = "apply" /\ last.cond # "error"
            /\ last.mem < MEMORY_WARN_THRESHOLD_GB * 1024)
       => /\ is_alarm_active <=> last.was_run >= WARN_COUNT_THRESHOLD - 1
          /\ last.was_active <=> last.was_run = WARN_COUNT_THRESHOLD

\* C2 as stated: trigger count 7, threshold 8 GB; 7 consecutive samples below
\* the threshold make the alarm active exactly at the 7th, and a sample at or
\* above the threshold applied right after them returns the alarm to Idle.
C2_AsStated ==
    /\ WARN_COUNT_THRESHOLD = 7 /\ MEMORY_WARN_THRESHOLD_GB = 8
    /\ LowSampleActivatesAtSeventh
    /\ (last.op = "apply" /\ last.cond # "error"
            /\ last.was_low = WARN_COUNT_THRESHOLD
            /\ last.mem >= MEMORY_WARN_THRESHOLD_GB * 1024)
       => ~is_alarm_active

\* C2 amended: 7 consecutive samples below the threshold make the alarm
\* active exactly at the 7th; a sample at or above the threshold that
\* carries no stall alert returns the active alarm to Idle in that step,
\* while one that carries the stall alert keeps it active.
C2_RecoveryNeedsNoStallAlert ==
    /\ WARN_COUNT_THRESHOLD = 7 /\ MEMORY_WARN_THRESHOLD_GB = 8
    /\ LowSampleActivatesAtSeventh
    /\ (last.op = "apply" /\ last.cond # "error" /\ last.was_active
            /\ last.mem >= MEMORY_WARN_THRESHOLD_GB * 1024)
       => (is_alarm_active <=> last.cond = "met")

C2_Witness ==
    /\ last.op = "apply" /\ last.branch = "recover"
    /\ last.was_low = WARN_COUNT_THRESHOLD
    /\ last.mem = MEMORY_WARN_THRESHOLD_GB * 1024
    /\ total_checks = WARN_COUNT_THRESHOLD + 1
    /\ failure_count = 1

\* C3: every step that takes the alarm into Active invokes _play_beep_alarm
\* exactly once, and a step that finds the alarm active with the clip still
\* playing does not invoke it.
C3_PlayOncePerActivation ==
    last.op = "apply"
    => /\ (~last.was_active /\ is_alarm_active)
          => (last.plays = 1 /\ playback_count = 1)
       /\ (last.was_active /\ is_alarm_active /\ last.was_playing)
          => (last.plays = 0 /\ playback_count = last.was_plays)
       /\ playback_count = run_plays
       /\ run_plays = (IF last.cond = "clear" THEN 0
                       ELSE last.was_plays + last.plays)

C3_Witness ==
    /\ last.op = "apply"
    /\ last.was_active /\ is_alarm_active /\ last.was_playing
    /\ playback_count = 1

\* C4 as stated: every step that takes the alarm from Active to Idle
\* invokes playback.stop() exactly once, whether or not the clip is
\* playing, and logs a duration >= 0.
C4_AsStated ==
    (last.op = "apply" /\ last.was_active /\ ~is_alarm_active)
    => (last.stops = 1 /\ last.duration >= 0)

\* C4 amended: a step that takes the alarm from Active to Idle invokes
\* playback.stop() once if the clip is playing and not at all otherwise;
\* either way no clip plays afterwards and the logged duration is >= 0.
C4_StopOnlyWhilePlaying ==
    (last.op = "apply" /\ last.was_active /\ ~is_alarm_active)
    => /\ last.stops = (IF last.was_playing THEN 1 ELSE 0)
       /\ ~playback_active
       /\ last.duration >= 0

C4_Witness ==
    /\ last.op = "apply" /\ last.was_active /\ ~is_alarm_active
    /\ playback = "object" /\ ~last.was_playing
    /\ last.stops = 0 /\ last.duration > 0

\* C5: in every state between consumer steps alarm_start_time is set
\* exactly if is_alarm_active.
C5_StartTimeIffActive ==
    (alarm_start_time # None) <=> is_alarm_active

C5_Witness ==
    /\ last.op = "apply" /\ last.branch = "activate"
    /\ is_alarm_active /\ alarm_start_time = now

\* C6: after a sample whose aggregated condition is not met is applied the
\* alarm is inactive, consecutive_warn_count is 0, alarm_start_time is None
\* and playback_count is 0, whatever the state before.
C6_ClearResetsAlarm ==
    (last.op = "apply" /\ last.cond = "clear")
    => /\ ~is_alarm_active
       /\ consecutive_warn_count = 0
       /\ alarm_start_time = None
       /\ playback_count = 0

C6_Witness ==
    /\ last.op = "apply" /\ last.cond = "clear"
    /\ last.was_active /\ last.was_plays = 2

----------------------------------------------------------------------------
\* Properties of a failed fetch (SpecSingleFile)

\* C7: a fetch that raises leaves the stall detector's fields as they were
\* before it started, and applying its error adds one to failure_count and
\* changes nothing else of the alarm or the detector.
C7_FailedFetchChangesNothing ==
    [][/\ (last'.op = "fetch" /\ last'.branch = "failed")
          => UNCHANGED <<stallVars, alarmVars, failure_count>>
       /\ (last'.op = "apply" /\ last'.cond = "error")
          => /\ failure_count' = failure_count + 1
             /\ UNCHANGED <<stallVars, alarmVars, success_count,
                            playback_active>>]_vars

----------------------------------------------------------------------------
\* Properties of the stall detector (SpecStall)

\* C8: with interval 30 s and threshold 2, counts 5, 5, 5 seen at 0 s, 30 s
\* and 60 s give alert false with streak 1 at 30 s and alert true with
\* streak 2 at 60 s; at any window boundary where the count exceeds the last
\* observed count the streak becomes 0 and the alert is false.
C8_StallScenario ==
    /\ WEBUI_CHECK_INTERVAL_SECONDS = 30 /\ WEBUI_WARN_CYCLE_THRESHOLD = 2
    /\ (last.op = "check" /\ last.branch = "boundary"
            /\ last.fc <= last.was_file_count)
       => /\ consecutive_webui_no_increase_count = last.was_streak + 1
          /\ last.alert <=> (last.was_streak + 1 >= 2)
    /\ (last.op = "check" /\ last.fc = 5 /\ last.was_file_count = 5
            /\ last.elapsed = 30000)
       => /\ (now = 30000 /\ last.was_streak = 0)
             => (~last.alert /\ consecutive_webui_no_increase_count = 1)
          /\ (now = 60000 /\ last.was_streak = 1)
             => (last.alert /\ consecutive_webui_no_increase_count = 2)
    /\ (last.op = "check" /\ last.branch = "boundary"
            /\ last.fc > last.was_file_count)
       => (consecutive_webui_no_increase_count = 0 /\ ~last.alert)

C8_Witness ==
    /\ last.op = "check" /\ last.fc = 5 /\ last.was_file_count = 5
    /\ last.elapsed = 30000 /\ now = 60000 /\ last.was_streak = 1
    /\ last.alert

\* A boundary with a higher count resets a streak that had reached the
\* threshold.
C8_ResetWitness ==
    /\ last.op = "check" /\ last.branch = "boundary"
    /\ last.fc > last.was_file_count
    /\ last.was_streak = WEBUI_WARN_CYCLE_THRESHOLD

\* The streak or the baseline changed in the last detector call.
Compared ==
    \/ last.branch = "boundary"
    \/ consecutive_webui_no_increase_count # last.was_streak
    \/ last_webui_file_count # last.was_file_count

\* C9 as stated: a call after initialisation compares (changes the streak
\* or the baseline) only if a full window of WEBUI_CHECK_INTERVAL_SECONDS has
\* elapsed since last_webui_check_time.
C9_AsStated ==
    (last.op = "check" /\ last.branch # "init" /\ Compared)
    => last.elapsed >= WEBUI_CHECK_INTERVAL_SECONDS * 1000

\* C9 amended: a call after initialisation compares exactly if the window
\* less a tolerance of one second has elapsed since last_webui_check_time;
\* an earlier call changes neither the streak nor the baseline.
C9_ComparesFromOneSecondEarly ==
    (last.op = "check" /\ last.branch # "init")
    => /\ Compared <=>
            last.elapsed >= (WEBUI_CHECK_INTERVAL_SECONDS - 1) * 1000
       /\ ~Compared
            => /\ consecutive_webui_no_increase_count = last.was_streak
               /\ last_webui_file_count = last.was_file_count
               /\ last_webui_check_time = now - last.elapsed

C9_Witness ==
    /\ last.op = "check" /\ last.branch = "boundary"
    /\ last.elapsed = (WEBUI_CHECK_INTERVAL_SECONDS - 1) * 1000
    /\ last_webui_check_time = now

----------------------------------------------------------------------------
\* Properties of the tick driver (Spec)

\* C10: every tick adds one to total_checks, submits exactly one fetch and
\* touches no running or completed fetch; a tick is possible whatever
\* fetches are still queued or running.
C10_TickNeverWaits ==
    /\ [][last'.op = "tick"
            => /\ total_checks' = total_checks + 1
               /\ pending' = Append(pending, total_checks')
               /\ running' = running /\ afterq' = afterq
               /\ now' >= now + UPDATE_INTERVAL_MS]_vars
    /\ []((total_checks < MaxOverlapChecks /\ InFlight < MaxInFlight)
            => ENABLED Tick(MaxOverlapChecks))

C10_Witness ==
    /\ last.op = "tick"
    /\ running # {} /\ Len(pending) = 1
    /\ total_checks = MaxOverlapChecks

----------------------------------------------------------------------------
\* Properties of the hand-over between the threads (Spec)

\* C11: the stall window fields and the alarm lifecycle fields are changed
\* only by the consumer step (_process_fetched_data on the main thread),
\* never by a fetch on a worker thread.
C11_OnlyConsumerMutates ==
    [][(stallVars' # stallVars \/ alarmVars' # alarmVars)
          => last'.op = "apply"]_vars

\* The ids of the fetches in flight: none is lost or duplicated.
IdsInFlight ==
    {pending[k] : k \in 1..Len(pending)}
        \cup {res.id : res \in running}
        \cup {afterq[k].id : k \in 1..Len(afterq)}

\* C12: every completed fetch (sample or error) is appended to the one Tk
\* event queue, and the alarm state and the counters change only in a
\* consumer step that takes exactly the oldest queued result; this holds for
\* every interleaving of up to two running fetches.
C12_OneSerializedQueue ==
    /\ [][/\ last'.op = "done"
             => \E res \in running :
                   /\ running' = running \ {res}
                   /\ afterq' = Append(afterq, res)
          /\ (alarmVars' # alarmVars \/ success_count' # success_count
                 \/ failure_count' # failure_count
                 \/ Len(afterq') < Len(afterq))
             => /\ last'.op = "apply"
                /\ afterq # <<>> /\ afterq' = Tail(afterq)
                /\ last'.cond = Aggregated(Head(afterq))
                /\ running' = running /\ pending' = pending]_vars
    /\ [](/\ Cardinality(running) <= max_workers
          /\ Cardinality(IdsInFlight) = InFlight
          /\ IdsInFlight \subseteq 1..total_checks)

C12_Witness ==
    /\ last.op = "apply"
    /\ Len(afterq) = 1
    /\ total_checks = max_workers + 1

----------------------------------------------------------------------------
\* Properties of the alarm sound (SpecSerial)

C14_ReplayWhenSilent ==
    (last.op = "apply" /\ last.cond = "met" /\ last.was_active
        /\ ~last.was_playing)
    => last.plays = 1

----------------------------------------------------------------------------
\* Properties of shutdown (SpecClosing)

\* C15: when on_closing has completed the alarm clip is not playing.
C15_ClosingStopsSound ==
    last.op = "close" => ~playback_active

\* C16: on_closing never waits for a running fetch; it cancels the queued
\* fetches and leaves the running ones alone, and afterwards no fetch, be it
\* cancelled or completing late, delivers a sample or an error to the
\* consumer.
C16_ShutdownWithoutWaiting ==
    /\ [][/\ last'.op = "close"
             => /\ closed' /\ pending' = <<>> /\ afterq' = <<>>
                /\ running' = running
                /\ UNCHANGED <<appVars, stallVars, playback_active>>
          /\ closed
             => /\ closed' /\ pending' = <<>> /\ afterq' = <<>>
                /\ UNCHANGED appVars]_vars
    /\ [](~closed => ENABLED on_closing)

C16_Witness ==
    /\ closed /\ last.op = "done"
    /\ total_checks = 2 /\ success_count + failure_count = 0

----------------------------------------------------------------------------
\* Properties of the debounce (SpecSerial)

\* C17: the alarm never becomes active in a single sample from Idle; while
\* it is inactive consecutive_warn_count is the number of consecutive met
\* samples applied, rising by one per Arming step from 1, and the step into
\* Active is the one that follows WARN_COUNT_THRESHOLD - 1 Arming steps.
C17_NoStateSkipped ==
    /\ consecutive_warn_count = (IF is_alarm_active THEN 0 ELSE met_run)
    /\ is_alarm_active <=> met_run = WARN_COUNT_THRESHOLD
    /\ (last.op = "apply" /\ last.branch = "arming")
       => /\ consecutive_warn_count = last.was_run + 1
          /\ ~last.was_active /\ ~is_alarm_active
    /\ (last.op = "apply" /\ ~last.was_active /\ is_alarm_active)
       => /\ last.branch = "activate"
          /\ last.was_run = WARN_COUNT_THRESHOLD - 1
    /\ (last.op = "apply" /\ last.was_run = 0 /\ last.cond = "met")
       => (~is_alarm_active /\ consecutive_warn_count = 1)

C17_Witness ==
    /\ last.op = "apply" /\ last.branch = "activate"
    /\ last.was_run = WARN_COUNT_THRESHOLD - 1
    /\ success_count = 1

----------------------------------------------------------------------------
\* Liveness of the recovery (SpecLive)

\* C18: once a fetch has succeeded with the aggregated condition false while
\* the alarm is active, and results keep being delivered, the alarm becomes
\* inactive and the clip is stopped; so the alarm cannot stay active for
\* ever when every fetch from some point on is of that kind.
C18_ActiveReturnsToIdle ==
    (is_alarm_active
        /\ \E res \in running : Aggregated(res) = "clear")
    ~> (~is_alarm_active /\ ~playback_active /\ alarm_start_time = None)

C18_Witness ==
    /\ last.op = "apply" /\ last.branch = "recover"
    /\ last.stops = 1
    /\ ~is_alarm_active /\ ~playback_active

----------------------------------------------------------------------------
\* Properties of the layering of the debounce (SpecSerial)

\* C19 as stated: the dedicated-memory condition is debounced before it
\* enters the aggregated condition, so an alarm driven by memory alone
\* becomes active only after more than WARN_COUNT_THRESHOLD consecutive
\* samples below the threshold.
C19_AsStated ==
    (last.op = "apply" /\ ~last.was_active /\ is_alarm_active
        /\ ~last.alert)
    => last.was_low + 1 > WARN_COUNT_THRESHOLD

\* C19 amended: the dedicated-memory condition has no debounce of its own:
\* the first sample below the threshold already counts as met, and
\* WARN_COUNT_THRESHOLD consecutive met samples, the sample that enters
\* Active included, are the only debounce.
C19_SingleDebounce ==
    /\ (last.op = "apply" /\ last.cond # "error")
       => ((last.mem < MEMORY_WARN_THRESHOLD_GB * 1024 \/ last.alert)
              <=> last.branch \in {"arming", "activate", "replay", "active"})
    /\ (last.op = "apply" /\ last.cond # "error" /\ last.was_run = 0
            /\ last.mem < MEMORY_WARN_THRESHOLD_GB * 1024)
       => (consecutive_warn_count = 1 /\ met_run = 1)
    /\ (last.op = "apply" /\ ~last.was_active /\ is_alarm_active)
       => last.was_run + 1 = WARN_COUNT_THRESHOLD

C19_Witness ==
    /\ last.op = "apply" /\ ~last.was_active /\ is_alarm_active
    /\ ~last.alert /\ last.was_low + 1 = WARN_COUNT_THRESHOLD
    /\ total_checks = WARN_COUNT_THRESHOLD /\ success_count = 0

----------------------------------------------------------------------------
\* Properties of an alarm driven by the stall alert (SpecHighMemory)

\* C20: with interval 30 s and threshold 2 and dedicated memory at or above
\* its threshold, the stall alert is true from the boundary of the second
\* window without an increase (two windows after initialisation) and on the
\* ticks inside the following window, each sample is met exactly if it
\* carries the alert, and the alarm becomes active at the
\* WARN_COUNT_THRESHOLD-th consecutive such sample, not earlier.
C20_StallDrivesAlarm ==
    /\ WEBUI_CHECK_INTERVAL_SECONDS = 30 /\ WEBUI_WARN_CYCLE_THRESHOLD = 2
    /\ consecutive_webui_no_increase_count >= 2
       => now >= 2 * (WEBUI_CHECK_INTERVAL_SECONDS - 1) * 1000
    /\ (last.op = "fetch" /\ last.branch \in {"boundary", "inside"})
       => (last.alert <=> consecutive_webui_no_increase_count >= 2)
    /\ (last.op = "apply" /\ last.cond # "error")
       => /\ last.cond = "met" <=> last.alert
          /\ last.branch \in {"arming", "activate", "replay", "active"}
                <=> last.alert
    /\ is_alarm_active <=> met_run = WARN_COUNT_THRESHOLD
    /\ (last.op = "apply" /\ ~last.was_active /\ is_alarm_active)
       => last.was_run = WARN_COUNT_THRESHOLD - 1
    /\ is_alarm_active
       => now >= 2 * (WEBUI_CHECK_INTERVAL_SECONDS - 1) * 1000
                 + (WARN_COUNT_THRESHOLD - 1) * UPDATE_INTERVAL_MS

C20_Witness ==
    /\ last.op = "apply" /\ last.branch = "activate" /\ last.alert
    /\ last.mem = MEMORY_WARN_THRESHOLD_BYTES
    /\ consecutive_webui_no_increase_count = 2
    /\ total_checks = WARN_COUNT_THRESHOLD + 2 /\ success_count = 2
    /\ now = 2 * (WEBUI_CHECK_INTERVAL_SECONDS - 1) * 1000
             + (WARN_COUNT_THRESHOLD - 1) * UPDATE_INTERVAL_MS

----------------------------------------------------------------------------
\* Properties of the order of results (Spec)

\* C27: a completed fetch is scheduled behind every result already
\* scheduled, whatever the ticks that submitted them, and the consumer always
\* applies the result at the front: results are applied in completion order
\* and none is dropped or moved.
C27_AppliedInCompletionOrder ==
    /\ [][last'.op = "done" =>
            /\ Len(afterq') = Len(afterq) + 1
            /\ SubSeq(afterq', 1, Len(afterq)) = afterq
            /\ afterq'[Len(afterq')] \in running \ running']_vars
    /\ [][last'.op = "apply" =>
            /\ last'.id = Head(afterq).id
            /\ \A k \in 1..Len(afterq') : afterq'[k] = afterq[k + 1]
            /\ Len(afterq') = Len(afterq) - 1]_vars

\* The fetch of the second tick completed first: the sample of the first
\* tick is applied last, after the newer one.
C27_Witness ==
    /\ last.op = "apply"
    /\ last.id = 1
    /\ total_checks = 2
    /\ InFlight = 0

----------------------------------------------------------------------------
\* Properties of the detector under concurrent fetches (SpecRace)

\* C28 (SpecRace): with two fetches running at once the streak is still
\* incremented at most once per elapsed window of 29 s, so the streak never
\* exceeds the number of windows elapsed and the alert is never returned
\* before WEBUI_WARN_CYCLE_THRESHOLD windows have elapsed.
C28_OneIncrementPerWindow ==
    /\ consecutive_webui_no_increase_count
           * (WEBUI_CHECK_INTERVAL_SECONDS - 1) * 1000 <= now
    /\ (last.op = "check" /\ last.alert) =>
           now >= WEBUI_WARN_CYCLE_THRESHOLD
                     * (WEBUI_CHECK_INTERVAL_SECONDS - 1) * 1000

----------------------------------------------------------------------------
\* Properties of the detector's branches (SpecStall)

\* C29 as stated: a call made before a full window of
\* WEBUI_CHECK_INTERVAL_SECONDS has elapsed since the last boundary leaves
\* the detector's fields unchanged and returns the last boundary's alert.
C29_AsStated ==
    [][(last'.op = "check" /\ ~Uninitialised
        /\ now - last_webui_check_time < WEBUI_CHECK_INTERVAL_SECONDS * 1000) =>
           /\ UNCHANGED stallVars
           /\ last'.alert = boundary_alert]_vars

\* C29 amended: a call made less than the window less one second after the
\* last boundary leaves the detector's fields unchanged and returns the
\* alert flag computed at that boundary, whatever the current count is; a
\* call made from one second before the end of the window on is a boundary.
C29_InsideWindowFrame ==
    [][(last'.op = "check" /\ ~Uninitialised) =>
        IF now - last_webui_check_time < (WEBUI_CHECK_INTERVAL_SECONDS - 1) * 1000
        THEN /\ UNCHANGED stallVars
             /\ last'.alert = boundary_alert
             /\ last'.branch = "inside"
        ELSE /\ last'.branch = "boundary"
             /\ last_webui_check_time' = now
             /\ last_webui_file_count' = last'.fc]_vars

\* A call 28 s after the boundary that raised the alert, with a count that
\* has grown since: the fields stay and the alert is still returned.
C29_Witness ==
    /\ last.op = "check"
    /\ last.branch = "inside"
    /\ last.elapsed = (WEBUI_CHECK_INTERVAL_SECONDS - 2) * 1000
    /\ last.fc > last_webui_file_count
    /\ last.alert
    /\ last.was_boundary_alert

\* C30: the first call, and no other, takes the initialization branch: it
\* stores the current count and time, leaves the streak at 0 and returns
\* alert false for every count, 0 included; the stored count is never
\* negative afterwards, so the sentinel -1 is never met again.
C30_InitialisedOnce ==
    /\ [][last'.op = "check" =>
            /\ (last'.branch = "init") <=> (last_webui_file_count = -1)
            /\ last'.branch = "init" =>
                   /\ last_webui_file_count' = last'.fc
                   /\ last_webui_check_time' = now
                   /\ consecutive_webui_no_increase_count' = 0
                   /\ ~last'.alert]_vars
    /\ [][last_webui_file_count >= 0 =>
            (last_webui_file_count' >= 0 /\ last'.branch # "init")]_vars
    /\ [](last.op = "check" => last_webui_file_count >= 0)

\* The first call, made some time after construction, met an empty
\* directory.
C30_Witness ==
    /\ last.op = "check"
    /\ last.branch = "init"
    /\ last.was_file_count = -1
    /\ last.fc = 0
    /\ last_webui_file_count = 0
    /\ last_webui_check_time = now
    /\ now > 0
    /\ consecutive_webui_no_increase_count = 0

----------------------------------------------------------------------------
\* Properties of the aggregated condition (SpecCommitted)

\* C21: a sample's aggregated condition is met exactly when dedicated memory
\* is below MEMORY_WARN_THRESHOLD_BYTES or the stall alert is active, and the
\* alarm state after the sample is a function of the alarm state before it,
\* the dedicated memory and the stall alert alone: the committed-memory
\* reading of the sample appears nowhere in it.
C21_CommittedMemoryIgnored ==
    [][(last'.op = "apply" /\ last'.cond # "error") =>
        LET res == Head(afterq)
            met == res.mem < MEMORY_WARN_THRESHOLD_BYTES \/ res.alert
            fires == consecutive_warn_count + 1 >= WARN_COUNT_THRESHOLD
        IN /\ (last'.branch \in {"activate", "arming", "replay", "active"}) <=> met
           /\ (last'.branch \in {"recover", "disarm", "normal"}) <=> ~met
           /\ is_alarm_active' = (met /\ (is_alarm_active \/ fires))
           /\ consecutive_warn_count' =
                  IF met /\ ~is_alarm_active /\ ~fires
                  THEN consecutive_warn_count + 1 ELSE 0
           /\ (alarm_start_time' = None) <=> ~is_alarm_active'
           /\ success_count' = IF met THEN success_count ELSE success_count + 1
           /\ failure_count' = IF met /\ ~is_alarm_active /\ fires
                               THEN failure_count + 1 ELSE failure_count]_vars

\* Committed memory at its 80 GB threshold, dedicated memory at 8 GB and no
\* stall alert: the sample is applied as a normal one and the alarm stays idle.
C21_Witness ==
    /\ last.op = "apply"
    /\ last.vm >= VIRTUAL_MEMORY_WARN_THRESHOLD_GB
    /\ last.mem >= MEMORY_WARN_THRESHOLD_BYTES
    /\ ~last.alert
    /\ last.branch = "normal"
    /\ ~is_alarm_active

----------------------------------------------------------------------------
\* Properties of the sound (SpecSerial)

\* C22: the play routine is entered only while no clip is sounding and
\* leaves at most the one clip of the single Playback object sounding; the
\* recovery calls stop() only on a sounding clip, and a recovery that finds
\* the clip already stopped completes without calling it: play and stop
\* never fail the handler and never leave a second playback.
C22_PlayStopIdempotent ==
    [][last'.op = "apply" =>
        /\ last'.plays = 1 => ~(playback # "none" /\ playback_active)
        /\ last'.plays = 1 => playback_count' = playback_count + 1
        /\ last'.stops = 1 => (playback_active /\ ~playback_active')
        /\ (last'.branch = "recover" /\ ~playback_active) =>
               (last'.stops = 0 /\ ~playback_active' /\ ~is_alarm_active'
                /\ success_count' = success_count + 1)
        /\ afterq' = Tail(afterq)]_vars

\* A recovery that finds the clip already at its end: nothing to stop.
C22_Witness ==
    /\ last.op = "apply"
    /\ last.branch = "recover"
    /\ playback = "object"
    /\ ~last.was_playing
    /\ last.stops = 0
    /\ ~playback_active

\* C23: when the clip cannot be played (play() raises, or there is no
\* playback object) _play_beep_alarm sounds the system beep and returns: no
\* clip is playing afterwards, the call is counted, the handler finishes with
\* the result consumed, an activation is complete (alarm active, start time
\* set, failure_count one higher, warn count 0), and the next scheduled
\* result can be processed.
C23_PlayFailureFallsBack ==
    /\ [][(last'.op = "apply" /\ last'.plays = 1
            /\ (playback = "none" \/ last'.raised)) =>
            /\ ~playback_active'
            /\ playback_count' = playback_count + 1
            /\ afterq' = Tail(afterq)
            /\ last'.branch = "activate" =>
                   /\ is_alarm_active'
                   /\ alarm_start_time' = now
                   /\ failure_count' = failure_count + 1
                   /\ consecutive_warn_count' = 0]_vars
    /\ []((afterq # <<>> /\ ~closed) => ENABLED Apply)

\* An activation whose play() raised.
C23_Witness ==
    /\ last.op = "apply"
    /\ last.branch = "activate"
    /\ last.raised
    /\ is_alarm_active
    /\ ~playback_active
    /\ consecutive_warn_count = 0

----------------------------------------------------------------------------
\* Properties of error handling

\* C24 (SpecUnexpected): an unexpected error raised while a fetched sample
\* is evaluated is caught and counted: failure_count is one higher after
\* the handler.
C24_UnexpectedErrorCounted ==
    [][(last'.op = "apply" /\ last'.branch = "raised") =>
           failure_count' = failure_count + 1]_vars

----------------------------------------------------------------------------
\* Properties of the committed-memory logger (SpecVmLog)

\* C26 as stated: a later call emits a record only if at least the logging
\* interval has elapsed since the last record.
C26_AsStated ==
    (last.op = "log" /\ last.log = "periodic") =>
        last.elapsed >= VM_LOG_INTERVAL_SECONDS * 1000

\* C26 amended: the first call stores the baseline (first and last record
\* time and value) and emits the initialization record; a later call emits a
\* record exactly when the time since the last record is at least the
\* logging interval less one second, with delta = value - last recorded
\* value, and replaces the last record's time and value by the current ones;
\* every other call emits nothing and leaves the logger's fields unchanged.
C26_LogsFromOneSecondEarly ==
    [][last'.op = "log" =>
        IF first_vm_record_time = None
        THEN /\ last'.log = "init"
             /\ first_vm_record_time' = now /\ first_vm_used_gb' = last'.vm
             /\ last_vm_record_time' = now /\ last_vm_used_gb' = last'.vm
        ELSE IF now - last_vm_record_time >= (VM_LOG_INTERVAL_SECONDS - 1) * 1000
        THEN /\ last'.log = "periodic"
             /\ last'.delta = last'.vm - last_vm_used_gb
             /\ last_vm_record_time' = now /\ last_vm_used_gb' = last'.vm
             /\ UNCHANGED <<first_vm_record_time, first_vm_used_gb>>
        ELSE /\ last'.log = "none"
             /\ UNCHANGED logVars]_vars

\* A periodic record emitted 1799 s after the last one, with a delta taken
\* from the last record and not from the first.
C26_Witness ==
    /\ last.op = "log"
    /\ last.log = "periodic"
    /\ last.elapsed = (VM_LOG_INTERVAL_SECONDS - 1) * 1000
    /\ last.delta # last.vm - first_vm_used_gb
    /\ last_vm_record_time = now
    /\ last_vm_used_gb = last.vm

----------------------------------------------------------------------------
\* Properties of an absent output directory (SpecAbsentDir)

\* C31: an absent or unreadable directory gives the count 0 and the check
\* returns as for any count; a first call that meets it stores the baseline
\* 0, every boundary that meets it adds one to the streak (0 is no increase
\* over any baseline), and the alert is returned exactly when the streak
\* has reached WEBUI_WARN_CYCLE_THRESHOLD.
C31_AbsentDirectoryStalls ==
    [][last'.op = "check" =>
        /\ last'.fc >= 0
        /\ last'.fc = 0 =>
               /\ last'.branch = "init" =>
                      /\ last_webui_file_count' = 0
                      /\ consecutive_webui_no_increase_count' = 0
                      /\ ~last'.alert
               /\ last'.branch = "boundary" =>
                      /\ last_webui_file_count' = 0
                      /\ consecutive_webui_no_increase_count'
                             = consecutive_webui_no_increase_count + 1
                      /\ last'.alert <=>
                             (consecutive_webui_no_increase_count + 1
                                 >= WEBUI_WARN_CYCLE_THRESHOLD)]_vars

\* The directory was absent at initialization and at the two boundaries
\* that followed: the second boundary returns the alert.
C31_Witness ==
    /\ last.op = "check"
    /\ last.branch = "boundary"
    /\ last.fc = 0
    /\ last.was_file_count = 0
    /\ last.was_streak = WEBUI_WARN_CYCLE_THRESHOLD - 1
    /\ consecutive_webui_no_increase_count = WEBUI_WARN_CYCLE_THRESHOLD
    /\ last.alert
    /\ now = WEBUI_WARN_CYCLE_THRESHOLD * (WEBUI_CHECK_INTERVAL_SECONDS - 1) * 1000

----------------------------------------------------------------------------
\* Properties of repeated activations (SpecRetrigger)

\* C32 as stated: failure_count is never incremented while the alarm
\* remains active.
C32_AsStated ==
    [][(last'.op = "apply" /\ is_alarm_active /\ is_alarm_active') =>
           failure_count' = failure_count]_vars

\* C32 amended: the alarm becomes active only on a met sample that is at
\* least the WARN_COUNT_THRESHOLD-th consecutive met sample since the last
\* cleared sample (or the start), and it leaves Active only on a cleared
\* sample, so a cleared sample and a full run of met samples separate two
\* entries; failure_count is incremented once at the entry and by no met
\* sample while the alarm stays active, but a fetch failure applied while
\* the alarm is active still increments it through the error path.
C32_NoDoubleTrigger ==
    [][last'.op = "apply" =>
        /\ (~is_alarm_active /\ is_alarm_active') =>
               /\ last'.cond = "met"
               /\ met_run = WARN_COUNT_THRESHOLD - 1
               /\ consecutive_warn_count = WARN_COUNT_THRESHOLD - 1
               /\ failure_count' = failure_count + 1
        /\ (is_alarm_active /\ last'.cond = "met") =>
               /\ is_alarm_active'
               /\ failure_count' = failure_count
               /\ consecutive_warn_count' = 0
        /\ (is_alarm_active /\ last'.cond = "error") =>
               /\ is_alarm_active'
               /\ failure_count' = failure_count + 1
        /\ (is_alarm_active /\ ~is_alarm_active') =>
               (last'.cond = "clear" /\ met_run' = 0)]_vars

\* The second entry into Active: seven met samples, a cleared one and seven
\* met samples again, with no fetch failure in between.
C32_Witness ==
    /\ last.op = "apply"
    /\ last.branch = "activate"
    /\ total_checks = 2 * WARN_COUNT_THRESHOLD + 1
    /\ failure_count = 2
    /\ success_count = 1
    /\ is_alarm_active

----------------------------------------------------------------------------
\* Invariants of the counters

\* C33 (SpecSerial): the debounce counter stays within
\* 0..WARN_COUNT_THRESHOLD - 1, and it is 0 whenever the alarm is active.
C33_WarnCountBounds ==
    /\ consecutive_warn_count >= 0
    /\ consecutive_warn_count < WARN_COUNT_THRESHOLD
    /\ is_alarm_active => consecutive_warn_count = 0

\* A met sample applied to the active alarm, after the activation that
\* took the counter from WARN_COUNT_THRESHOLD - 1 to 0.
C33_Witness ==
    /\ last.op = "apply"
    /\ last.cond = "met"
    /\ last.was_active
    /\ is_alarm_active
    /\ met_run = WARN_COUNT_THRESHOLD
    /\ consecutive_warn_count = 0

\* C34 (SpecSerial): success_count + failure_count never exceeds
\* total_checks, not even with the fetches still in flight counted as
\* applied; a consumer step raises at most one of the two counters, by one:
\* failure_count for a failed fetch and for an activation, success_count for
\* a cleared sample, neither for an arming, re-arm or other active tick.
C34_CountersWithinChecks ==
    /\ [](success_count + failure_count + InFlight <= total_checks)
    /\ [][last'.op = "apply" =>
            /\ last'.branch \in {"error", "activate"} =>
                   (failure_count' = failure_count + 1
                    /\ success_count' = success_count)
            /\ last'.branch \in {"recover", "disarm", "normal"} =>
                   (success_count' = success_count + 1
                    /\ failure_count' = failure_count)
            /\ last'.branch \in {"arming", "replay", "active"} =>
                   (success_count' = success_count
                    /\ failure_count' = failure_count)
            /\ total_checks' = total_checks]_vars

\* A re-arm tick after the activation: eight ticks counted, one failure,
\* no success.
C34_Witness ==
    /\ last.op = "apply"
    /\ last.branch = "replay"
    /\ total_checks = WARN_COUNT_THRESHOLD + 1
    /\ failure_count = 1
    /\ success_count = 0

----------------------------------------------------------------------------
\* Invariants of the stall detector (SpecStall)

\* C35: after every call made on one thread the returned alert flag is true
\* exactly when the streak, as the call left it, is at least
\* WEBUI_WARN_CYCLE_THRESHOLD; the streak is never negative.
C35_AlertIffStreak ==
    /\ consecutive_webui_no_increase_count >= 0
    /\ last.op = "check" =>
           (last.alert <=>
               consecutive_webui_no_increase_count >= WEBUI_WARN_CYCLE_THRESHOLD)

\* A call inside the window that follows the third boundary without an
\* increase: the streak is above the threshold and the alert is returned.
C35_Witness ==
    /\ last.op = "check"
    /\ last.branch = "inside"
    /\ consecutive_webui_no_increase_count > WEBUI_WARN_CYCLE_THRESHOLD
    /\ last.alert

\* C36: once the streak has reached the threshold (the alert is true, C35)
\* every further call returns the alert until a call at a window boundary
\* whose count is above the baseline recorded at the previous boundary, which
\* returns no alert and zeroes the streak. A higher count seen inside the
\* window leaves the alert and the streak as they are, and a boundary without
\* an increase adds one to the streak.
C36_AlertPersistsUntilIncreasingBoundary ==
    [][(/\ last'.op = "check"
        /\ consecutive_webui_no_increase_count >= WEBUI_WARN_CYCLE_THRESHOLD) =>
        IF last'.branch = "boundary" /\ last'.fc > last_webui_file_count
        THEN /\ ~last'.alert
             /\ consecutive_webui_no_increase_count' = 0
        ELSE /\ last'.alert
             /\ consecutive_webui_no_increase_count' =
                    IF last'.branch = "boundary"
                    THEN consecutive_webui_no_increase_count + 1
                    ELSE consecutive_webui_no_increase_count]_vars

\* The alert is on, a call inside the window sees a higher count and still
\* returns the alert with the streak untouched.
C36_Witness ==
    /\ last.op = "check"
    /\ last.branch = "inside"
    /\ last.fc > last.was_file_count
    /\ last.was_streak >= WEBUI_WARN_CYCLE_THRESHOLD
    /\ consecutive_webui_no_increase_count = last.was_streak
    /\ last.alert

\* The alert is on and a boundary call sees a higher count: the alert clears.
C36_ClearedWitness ==
    /\ last.op = "check"
    /\ last.branch = "boundary"
    /\ last.fc > last.was_file_count
    /\ last.was_streak >= WEBUI_WARN_CYCLE_THRESHOLD
    /\ consecutive_webui_no_increase_count = 0
    /\ ~last.alert

\* C37: a call at a window boundary always replaces the baseline by the
\* current count and the window start by the current time; a count at or
\* below the baseline (a lower one included) adds one to the streak, a count
\* above the baseline, lowered or not, zeroes it.
C37_BoundaryReplacesBaseline ==
    [][(last'.op = "check" /\ last'.branch = "boundary") =>
        /\ last_webui_file_count' = last'.fc
        /\ last_webui_check_time' = now
        /\ consecutive_webui_no_increase_count' =
               IF last'.fc > last_webui_file_count
               THEN 0
               ELSE consecutive_webui_no_increase_count + 1]_vars

\* A boundary call with a count below the baseline: the streak grows and the
\* baseline is lowered to that count.
C37_Witness ==
    /\ last.op = "check"
    /\ last.branch = "boundary"
    /\ last.fc < last.was_file_count
    /\ consecutive_webui_no_increase_count = last.was_streak + 1
    /\ last_webui_file_count = last.fc

\* The boundary after a lowered baseline: a count that is not above the
\* highest count seen so far, but above the lowered baseline, zeroes the streak.
C37_ResetWitness ==
    /\ last.op = "check"
    /\ last.branch = "boundary"
    /\ last.was_file_count = 0
    /\ last.was_streak = WEBUI_WARN_CYCLE_THRESHOLD
    /\ last.fc = 5
    /\ consecutive_webui_no_increase_count = 0

----------------------------------------------------------------------------
\* The application after shutdown (SpecClosing)

\* C38: once on_closing has run, the only steps left are the completion of a
\* fetch that was running and the end of the clip; neither applies a result,
\* so the alarm state and the three counters never change again, no callback
\* is left or put on the main thread's queue, and neither the consumer nor a
\* tick can run.
C38_NothingAppliedAfterClosing ==
    /\ [][closed =>
            /\ last'.op \in {"done", "clip"}
            /\ UNCHANGED <<is_alarm_active, consecutive_warn_count,
                           alarm_start_time, playback_count, total_checks,
                           success_count, failure_count>>
            /\ pending' = <<>> /\ afterq' = <<>>]_vars
    /\ [](closed => /\ ~ENABLED Apply
                    /\ ~ENABLED Tick(MaxChecks)
                    /\ ~ENABLED Fetch)

\* The window was closed with the alarm active and a fetch running; the
\* fetch has now completed and its result went nowhere.
C38_Witness ==
    /\ closed
    /\ last.op = "done"
    /\ is_alarm_active
    /\ running = {} /\ afterq = <<>>
    /\ success_count + failure_count < total_checks

====
